---- MODULE Spec2Model ----
(***************************************************************************)
(* A model of the easy-riscv assembler front end: the tokenizer of         *)
(* riscv-asm/src/tokenizer.rs, run as a state machine whose steps are the  *)
(* iterations of its two loops.  A source text is a sequence of one-       *)
(* character strings; a token text is a string.                            *)
(***************************************************************************)
EXTENDS Integers, Sequences, FiniteSets, TLC

\* ------------------------------------------------------------------------
\* Bounds of the exploration
\* ------------------------------------------------------------------------

\* longest generated source text
MaxLen == 4

\* ------------------------------------------------------------------------
\* Characters
\* ------------------------------------------------------------------------

Digits == {"0", "1", "2", "3", "4", "5", "6", "7", "8", "9"}

Lower == {"a", "b", "c", "d", "e", "f", "g", "h", "i", "j", "k", "l", "m",
          "n", "o", "p", "q", "r", "s", "t", "u", "v", "w", "x", "y", "z"}

Upper == {"A", "B", "C", "D", "E", "F", "G", "H", "I", "J", "K", "L", "M",
          "N", "O", "P", "Q", "R", "S", "T", "U", "V", "W", "X", "Y", "Z"}

\* char::is_ascii_digit
IsAsciiDigit(c) == c \in Digits

\* char::is_ascii_hexdigit
IsAsciiHexdigit(c) ==
    c \in Digits \cup {"a", "b", "c", "d", "e", "f", "A", "B", "C", "D", "E", "F"}

\* char::is_ascii_alphabetic
IsAsciiAlphabetic(c) == c \in Lower \cup Upper

\* the pattern ' ' | '\t' | '\r'
IsWhitespace(c) == c \in {" ", "\t", "\r"}

\* the patterns ',' ':' '(' ')'
IsPunctuation(c) == c \in {",", ":", "(", ")"}

\* the pattern '-' | '0'..='9'
IsNumberStart(c) == c = "-" \/ c \in Digits

\* the pattern 'a'..='z' | 'A'..='Z' | '_'
IsIdentifierStart(c) == c \in Lower \cup Upper \cup {"_"}

\* the continuation test of the identifier arm
IsIdentifierPart(c) == IsAsciiAlphabetic(c) \/ c = "_"

\* the characters that reach the catch-all arm
IsUnexpected(c) ==
    ~ (IsWhitespace(c) \/ c = "#" \/ IsPunctuation(c) \/ IsNumberStart(c)
       \/ c = "." \/ IsIdentifierStart(c) \/ c = "\"")

\* ------------------------------------------------------------------------
\* Strings
\* ------------------------------------------------------------------------

RECURSIVE Str(_)
\* the String made of the characters of s, in order
Str(s) == IF s = <<>> THEN "" ELSE Head(s) \o Str(Tail(s))

\* Option<String>: None is the empty sequence, Some(t) the one-element one
None == <<>>
Some(t) == <<t>>

RECURSIVE SplitLines(_, _)
\* the pieces of s between line feeds, cur being the piece under way; the
\* piece after the last line feed is a line only when it is not empty
SplitLines(s, cur) ==
    IF s = <<>> THEN (IF cur = <<>> THEN <<>> ELSE <<cur>>)
    ELSE IF Head(s) = "\n" THEN <<cur>> \o SplitLines(Tail(s), <<>>)
    ELSE SplitLines(Tail(s), Append(cur, Head(s)))

\* a line that ended in a line feed loses one carriage return before it
StripCr(l, hadLf) ==
    IF hadLf /\ l # <<>> /\ l[Len(l)] = "\r" THEN SubSeq(l, 1, Len(l) - 1) ELSE l

\* str::lines of the source
Lines(s) ==
    LET ps == SplitLines(s, <<>>)
        nlf == Cardinality({i \in 1..Len(s) : s[i] = "\n"})
    IN  [k \in 1..Len(ps) |-> StripCr(ps[k], k <= nlf)]

\* ------------------------------------------------------------------------
\* classify_identifier
\* ------------------------------------------------------------------------

Registers ==
    {"zero", "ra", "sp", "gp", "tp", "fp",
     "s0", "s1", "s2", "s3", "s4", "s5", "s6", "s7", "s8", "s9", "s10", "s11",
     "a0", "a1", "a2", "a3", "a4", "a5", "a6", "a7",
     "t0", "t1", "t2", "t3", "t4", "t5", "t6",
     "x0", "x1", "x2", "x3", "x4", "x5", "x6", "x7", "x8", "x9", "x10",
     "x11", "x12", "x13", "x14", "x15", "x16", "x17", "x18", "x19", "x20",
     "x21", "x22", "x23", "x24", "x25", "x26", "x27", "x28", "x29", "x30", "x31"}

Instructions ==
    {"add", "sub", "sll", "slt", "sltu", "xor", "srl", "sra", "or", "and",
     "addi", "slti", "sltiu", "xori", "ori", "andi", "slli", "srli", "srai",
     "lb", "lh", "lw", "lbu", "lhu",
     "jalr",
     "sb", "sh", "sw",
     "beq", "bne", "blt", "bge", "bltu", "bgeu",
     "lui", "auipc",
     "jal",
     "ecall"}

Pseudoinstructions == {"inc", "dec", "mv", "nop", "neg", "li"}

classify_identifier(s) ==
    IF s \in Registers THEN "Register"
    ELSE IF s \in Instructions THEN "Instruction"
    ELSE IF s \in Pseudoinstructions THEN "Pseudoinstruction"
    ELSE "Identifier"

\* ------------------------------------------------------------------------
\* Tokens
\* ------------------------------------------------------------------------

\* TokenKind::Number(base)
Number(base) == IF base = "Hex" THEN "Number(Hex)" ELSE "Number(Dec)"

SourceLocation(l, c) == [line |-> l, col |-> c]

Token(k, t, loc) == [kind |-> k, text |-> t, location |-> loc]

\* the kind of the token of a punctuation character
PunctuationKind(c) ==
    CASE c = "," -> "Comma"
      [] c = ":" -> "Colon"
      [] c = "(" -> "LParen"
      [] OTHER   -> "RParen"

\* ------------------------------------------------------------------------
\* Source texts
\* ------------------------------------------------------------------------

\* the characters of the generated source texts: one or two of each class
\* of the match in tokenize (the backslash reaches the catch-all arm)
Alphabet == {" ", "\n", "#", ",", "-", "0", "1", "x", "a", ".", "\"", "\\"}

BoundedSources == UNION {[1..n -> Alphabet] : n \in 0..MaxLen}

\* the source text of tests::test_simple_instruction
SimpleInstructionCode ==
    <<"l", "o", "o", "p", ":", " ", "a", "d", "d", "i", " ", "x", "1", ",",
      " ", "x", "0", ",", " ", "5", " ", "#", " ", "c", "o", "m", "m", "e",
      "n", "t", "\n">>

\* the source text of tests::test_hex_number
HexNumberCode ==
    <<"l", "i", " ", "a", "0", ",", " ", "0", "x", "F", "F">>

\* the source text of tests::test_simple_instruction_1
SimpleInstruction1Code ==
    <<"l", "b", " ", "a", "0", ",", " ", "8", "(", "s", "p", ")">>

\* the source text of tests::test_directive
DirectiveCode ==
    <<".", "d", "a", "t", "a", "\n", "m", "y", "_", "v", "a", "r", ":", " ",
      ".", "w", "o", "r", "d", " ", "1", "2", "3">>

\* the source text of tests::test_comment_stripping
CommentStrippingCode ==
    <<" ", "a", "d", "d", " ", "x", "1", ",", " ", "x", "2", ",", " ", "x",
      "3", " ", "#", " ", "T", "h", "i", "s", " ", "s", "h", "o", "u", "l",
      "d", " ", "b", "e", " ", "i", "g", "n", "o", "r", "e", "d">>

\* the source text of tests::test_location
LocationCode ==
    <<"l", "i", "n", "e", "1", "\n", " ", "l", "i", "n", "e", "2", ":", " ",
      "l", "w", " ", "x", "1", ",", " ", "0", "(", "s", "p", ")">>

\* the lowest ADDI immediate of the assembler's documentation, shortened
NegativeHexCode == <<"-", "0", "x", "1", "0">>

\* a string whose content is one escaped backslash, with a letter after it
EscapedBackslashCode == <<"\"", "\\", "\\", "\"", "a">>

TestSources ==
    {SimpleInstructionCode, HexNumberCode, SimpleInstruction1Code,
     DirectiveCode, CommentStrippingCode, LocationCode, NegativeHexCode,
     EscapedBackslashCode}

\* the decimal numeral of n, 0 <= n <= 99, as characters
DigitChar(d) ==
    CASE d = 0 -> "0" [] d = 1 -> "1" [] d = 2 -> "2" [] d = 3 -> "3"
      [] d = 4 -> "4" [] d = 5 -> "5" [] d = 6 -> "6" [] d = 7 -> "7"
      [] d = 8 -> "8" [] OTHER -> "9"

Numeral(n) ==
    IF n < 10 THEN <<DigitChar(n)>> ELSE <<DigitChar(n \div 10), DigitChar(n % 10)>>

\* the register names, as characters: the aliases without a digit and the
\* digit-bearing ones
PlainRegisterNames ==
    {<<"z", "e", "r", "o">>, <<"r", "a">>, <<"s", "p">>, <<"g", "p">>,
     <<"t", "p">>, <<"f", "p">>}

NumberedRegisterNames ==
    {<<"x">> \o Numeral(n) : n \in 0..31} \cup {<<"s">> \o Numeral(n) : n \in 0..11}
    \cup {<<"a">> \o Numeral(n) : n \in 0..7} \cup {<<"t">> \o Numeral(n) : n \in 0..6}

RegisterNames == PlainRegisterNames \cup NumberedRegisterNames

\* a register list: one name, or two names separated by a comma and a space
RegisterListSources ==
    RegisterNames
    \cup {r1 \o <<",", " ">> \o r2 : r1 \in RegisterNames,
                                     r2 \in {<<"s", "p">>, <<"x", "0">>, <<"s", "1", "1">>}}

Sources == BoundedSources \cup TestSources \cup RegisterListSources

\* ------------------------------------------------------------------------
\* State of one call of tokenize
\* ------------------------------------------------------------------------

VARIABLES
    source,     \* the argument
    tokens,     \* the Vec<Token> under construction
    line_num,   \* the line counter
    lines,      \* the lines iterator: the lines not yet taken
    line,       \* the line of the current iteration of the outer loop
    col_num,    \* the column counter of the current line
    chars,      \* the peekable chars iterator: the characters not yet taken
    pc,         \* "lines": at the head of the outer loop; "chars": at the
                \* head of the inner loop; "eol": after the inner loop was
                \* left by break; "done": returned
    result      \* the value returned: "Ok" (with tokens) or "Err"; "None"
                \* while the call runs

vars == <<source, tokens, line_num, lines, line, col_num, chars, pc, result>>

\* State of one call of assemble (riscv-asm/src/assembler.rs)
VARIABLES
    stage,      \* the statement assemble is about to run: "tokenize",
                \* "parse", "check", "allocate", "generate"; "returned"
                \* after it returned; "idle" when no call is modelled
    ran,        \* history: the stages that were started, in order
    unresolved, \* the value of symbol_table.check_for_unresolved()
    ret         \* the value returned, None while the call runs

asmVars == <<stage, ran, unresolved, ret>>

\* State of one Cpu (riscv-emu/src/cpu.rs)
VARIABLES
    cpu,        \* the struct: pc, regs, dram
    cpu_state,  \* "ready" between two calls of step, "panicked" after a
                \* fetch outside dram; "idle" when no Cpu is modelled
    trace       \* history: the instruction words given to execute, in order

cpuVars == <<cpu, cpu_state, trace>>

allVars == <<vars, asmVars, cpuVars>>

\* no call of tokenize is modelled
TokenizerIdle ==
    /\ source = <<>>
    /\ tokens = <<>>
    /\ line_num = 1
    /\ lines = <<>>
    /\ line = <<>>
    /\ col_num = 1
    /\ chars = <<>>
    /\ pc = "idle"
    /\ result = "None"

\* no call of assemble is modelled
AssembleIdle ==
    /\ stage = "idle"
    /\ ran = <<>>
    /\ unresolved = <<>>
    /\ ret = None

\* no Cpu is modelled
CpuIdle ==
    /\ cpu = [pc |-> 0, regs |-> <<>>, dram |-> <<>>]
    /\ cpu_state = "idle"
    /\ trace = <<>>

Init ==
    /\ source \in Sources
    /\ tokens = <<>>
    /\ line_num = 1
    /\ lines = Lines(source)
    /\ line = <<>>
    /\ col_num = 1
    /\ chars = <<>>
    /\ pc = "lines"
    /\ result = "None"
    /\ AssembleIdle
    /\ CpuIdle

RECURSIVE Run(_, _)
\* the number of leading characters of s that belong to class: what a
\* `while let Some(c) = chars.peek()` loop takes
Run(s, class) ==
    IF s # <<>> /\ Head(s) \in class THEN 1 + Run(Tail(s), class) ELSE 0

\* the iterator after n more characters were taken
Advance(s, n) == SubSeq(s, n + 1, Len(s))

\* `while let Some(line) = lines.next()`, `col_num = 1`, `line.chars()`
NextLine ==
    /\ pc = "lines"
    /\ lines # <<>>
    /\ line' = Head(lines)
    /\ lines' = Tail(lines)
    /\ col_num' = 1
    /\ chars' = Head(lines)
    /\ pc' = "chars"
    /\ UNCHANGED <<asmVars, cpuVars>>
    /\ UNCHANGED <<source, tokens, line_num, result>>

\* the arm ' ' | '\t' | '\r'
Whitespace ==
    /\ pc = "chars"
    /\ chars # <<>>
    /\ IsWhitespace(Head(chars))
    /\ chars' = Tail(chars)
    /\ col_num' = col_num + 1
    /\ UNCHANGED <<asmVars, cpuVars>>
    /\ UNCHANGED <<source, tokens, line_num, lines, line, pc, result>>

\* Comment taking the sign like a blank and going on with the line
CommentSkipsSign ==
    /\ pc = "chars"
    /\ chars # <<>>
    /\ Head(chars) = "#"
    /\ chars' = Tail(chars)
    /\ col_num' = col_num + 1
    /\ UNCHANGED <<asmVars, cpuVars>>
    /\ UNCHANGED <<source, tokens, line_num, lines, line, pc, result>>

\* the arm '#': break, no token
Comment ==
    /\ pc = "chars"
    /\ chars # <<>>
    /\ Head(chars) = "#"
    /\ chars' = Tail(chars)
    /\ pc' = "eol"
    /\ UNCHANGED <<asmVars, cpuVars>>
    /\ UNCHANGED <<source, tokens, line_num, lines, line, col_num, result>>

\* the arms ',' ':' '(' ')'
Punctuation ==
    /\ pc = "chars"
    /\ chars # <<>>
    /\ IsPunctuation(Head(chars))
    /\ tokens' = Append(tokens, Token(PunctuationKind(Head(chars)), Some(Head(chars)),
                                      SourceLocation(line_num, col_num)))
    /\ chars' = Tail(chars)
    /\ col_num' = col_num + 1
    /\ UNCHANGED <<asmVars, cpuVars>>
    /\ UNCHANGED <<source, line_num, lines, line, pc, result>>

\* the scan of the arm '-' | '0'..='9', s being the characters from the
\* first one of the numeral on: the base of the token and the number of
\* characters taken.  No branch returns: the error built for a '-' that no
\* digit follows is dropped, and the scan goes on.
NumberScan(s) ==
    LET char == Head(s)
        rest == Tail(s)
    IN  IF char = "-"
        THEN [base |-> "Dec", n |-> 1 + Run(rest, Digits)]
        ELSE IF char = "0" /\ rest # <<>> /\ Head(rest) = "x"
        THEN [base |-> "Hex",
              n |-> 2 + Run(Tail(rest), {c \in Digits \cup Lower \cup Upper : IsAsciiHexdigit(c)})]
        ELSE [base |-> "Dec", n |-> 1 + Run(rest, Digits)]

\* the arm '-' | '0'..='9'
NumberArm ==
    /\ pc = "chars"
    /\ chars # <<>>
    /\ IsNumberStart(Head(chars))
    /\ LET scan == NumberScan(chars)
       IN  /\ tokens' = Append(tokens, Token(Number(scan.base),
                                             Some(Str(SubSeq(chars, 1, scan.n))),
                                             SourceLocation(line_num, col_num)))
           /\ chars' = Advance(chars, scan.n)
           /\ col_num' = col_num + scan.n
    /\ UNCHANGED <<asmVars, cpuVars>>
    /\ UNCHANGED <<source, line_num, lines, line, pc, result>>

\* the text given to a Directive token, l being the line and taken the
\* characters the arm consumed: `text: Some(line.to_string())`
DirectiveText(l, taken) == Str(l)

\* the arm '.'
Directive ==
    /\ pc = "chars"
    /\ chars # <<>>
    /\ Head(chars) = "."
    /\ LET n == 1 + Run(Tail(chars), {c \in Lower \cup Upper : IsAsciiAlphabetic(c)})
       IN  /\ tokens' = Append(tokens, Token("Directive",
                                             Some(DirectiveText(line, SubSeq(chars, 1, n))),
                                             SourceLocation(line_num, col_num)))
           /\ chars' = Advance(chars, n)
           /\ col_num' = col_num + n
    /\ UNCHANGED <<asmVars, cpuVars>>
    /\ UNCHANGED <<source, line_num, lines, line, pc, result>>

\* the arm 'a'..='z' | 'A'..='Z' | '_'
Identifier ==
    /\ pc = "chars"
    /\ chars # <<>>
    /\ IsIdentifierStart(Head(chars))
    /\ LET n    == 1 + Run(Tail(chars), {c \in Lower \cup Upper \cup {"_"} : IsIdentifierPart(c)})
           text == Str(SubSeq(chars, 1, n))
       IN  /\ tokens' = Append(tokens, Token(classify_identifier(text), Some(text),
                                             SourceLocation(line_num, col_num)))
           /\ chars' = Advance(chars, n)
           /\ col_num' = col_num + n
    /\ UNCHANGED <<asmVars, cpuVars>>
    /\ UNCHANGED <<source, line_num, lines, line, pc, result>>

RECURSIVE StringRun(_, _)
\* the number of characters the loop of the arm '"' takes from s, the
\* characters after the opening quote
StringRun(s, escaped) ==
    IF s = <<>> THEN 0
    ELSE IF Head(s) = "\"" /\ ~ escaped THEN 1
    ELSE IF Head(s) = "\\" THEN 1 + StringRun(Tail(s), TRUE)
    ELSE 1 + StringRun(Tail(s), FALSE)

\* the arm '"'.  The error built when the text does not end in a quote is
\* dropped: the token is pushed in every case.
StringLiteral ==
    /\ pc = "chars"
    /\ chars # <<>>
    /\ Head(chars) = "\""
    /\ LET n == 1 + StringRun(Tail(chars), FALSE)
       IN  /\ tokens' = Append(tokens, Token("String", Some(Str(SubSeq(chars, 1, n))),
                                             SourceLocation(line_num, col_num)))
           /\ chars' = Advance(chars, n)
           /\ col_num' = col_num + n
    /\ UNCHANGED <<asmVars, cpuVars>>
    /\ UNCHANGED <<source, line_num, lines, line, pc, result>>

\* the arm _: the error is built and dropped, the character is taken, the
\* column counter is left alone and the loop goes on
Unexpected ==
    /\ pc = "chars"
    /\ chars # <<>>
    /\ IsUnexpected(Head(chars))
    /\ chars' = Tail(chars)
    /\ UNCHANGED <<asmVars, cpuVars>>
    /\ UNCHANGED <<source, tokens, line_num, lines, line, col_num, pc, result>>

\* EndLine with no Newline token for a line that gave no token
EndLineSkipsBlank ==
    /\ \/ pc = "chars" /\ chars = <<>>
       \/ pc = "eol"
    /\ tokens' = IF tokens = <<>> \/ tokens[Len(tokens)].kind = "Newline" THEN tokens
                  ELSE Append(tokens, Token("Newline", None, SourceLocation(line_num, col_num)))
    /\ line_num' = line_num + 1
    /\ pc' = "lines"
    /\ UNCHANGED <<asmVars, cpuVars>>
    /\ UNCHANGED <<source, lines, line, col_num, chars, result>>

\* the end of the body of the outer loop, reached when chars.next() is None
\* or by the break of the comment arm
EndLine ==
    /\ \/ pc = "chars" /\ chars = <<>>
       \/ pc = "eol"
    /\ tokens' = Append(tokens, Token("Newline", None, SourceLocation(line_num, col_num)))
    /\ line_num' = line_num + 1
    /\ pc' = "lines"
    /\ UNCHANGED <<asmVars, cpuVars>>
    /\ UNCHANGED <<source, lines, line, col_num, chars, result>>

\* Finish with an early return of the empty vector for the empty source
FinishEmptyEarly ==
    /\ pc = "lines"
    /\ lines = <<>>
    /\ tokens' = IF source = <<>> THEN tokens
                  ELSE Append(tokens, Token("EndOfFile", None, SourceLocation(line_num, 1)))
    /\ result' = "Ok"
    /\ pc' = "done"
    /\ UNCHANGED <<asmVars, cpuVars>>
    /\ UNCHANGED <<source, line_num, lines, line, col_num, chars>>

\* after the outer loop: the EndOfFile token and `anyhow::Ok(tokens)`
Finish ==
    /\ pc = "lines"
    /\ lines = <<>>
    /\ tokens' = Append(tokens, Token("EndOfFile", None, SourceLocation(line_num, 1)))
    /\ result' = "Ok"
    /\ pc' = "done"
    /\ UNCHANGED <<asmVars, cpuVars>>
    /\ UNCHANGED <<source, line_num, lines, line, col_num, chars>>

Next ==
    \/ NextLine
    \/ Whitespace
    \/ Comment
    \/ Punctuation
    \/ NumberArm
    \/ Directive
    \/ Identifier
    \/ StringLiteral
    \/ Unexpected
    \/ EndLine
    \/ Finish

Spec == Init /\ [][Next]_vars

\* ------------------------------------------------------------------------
\* Shape of the state
\* ------------------------------------------------------------------------

TypeOK ==
    /\ pc \in {"lines", "chars", "eol", "done"}
    /\ result \in {"None", "Ok", "Err"}
    /\ (result = "None") <=> (pc # "done")
    /\ line_num \in 1..(Len(source) + 2)
    /\ col_num \in 1..(Len(source) + 1)
    /\ \A i \in 1..Len(tokens) : Len(tokens[i].text) <= 1

\* ------------------------------------------------------------------------
\* Vocabulary of the properties
\* ------------------------------------------------------------------------

Last(s) == s[Len(s)]

\* the kinds, and the kind and text, of a token sequence
Kinds(toks) == [i \in 1..Len(toks) |-> toks[i].kind]
Shapes(toks) == [i \in 1..Len(toks) |-> <<toks[i].kind, toks[i].text>>]

\* the tokens that stand for text of the source
IsLayout(t) == t.kind \in {"Newline", "EndOfFile"}
RealTokens(toks) == SelectSeq(toks, LAMBDA t : ~ IsLayout(t))

CountKind(toks, k) == Cardinality({i \in 1..Len(toks) : toks[i].kind = k})

\* the position where the line of position i of s begins
LineStart(s, i) ==
    CHOOSE j \in 1..i : /\ \A k \in j..(i - 1) : s[k] # "\n"
                        /\ (j = 1 \/ s[j - 1] = "\n")

\* position i of s is on a line that has neither a comment sign nor a quote
\* before it: it is outside every comment and every string
InPlainCode(s, i) == \A k \in LineStart(s, i)..(i - 1) : s[k] \notin {"#", "\""}

\* the number of physical lines of s: one per line feed, and one more for a
\* last line that no line feed ends
NumPhysicalLines(s) ==
    Cardinality({i \in 1..Len(s) : s[i] = "\n"})
    + (IF s # <<>> /\ Last(s) # "\n" THEN 1 ELSE 0)

\* ------------------------------------------------------------------------
\* C1
\* ------------------------------------------------------------------------

\* C1: a source made of whole register names separated by a comma and a
\* space yields one Register token per name, whose text is the whole name,
\* and nothing else but the Comma between them; and the source of
\* test_simple_instruction yields the ten tokens Identifier("loop"), Colon,
\* Instruction("addi"), Register("x1"), Comma, Register("x0"), Comma,
\* Number(Dec,"5"), Newline, EndOfFile.
C1_RegisterNamesAreOneToken ==
    pc = "done" =>
        /\ source \in RegisterNames =>
               /\ result = "Ok"
               /\ Shapes(RealTokens(tokens)) = << <<"Register", Some(Str(source))>> >>
        /\ source \in RegisterListSources \ RegisterNames =>
               \A r1 \in RegisterNames, r2 \in RegisterNames :
                   source = r1 \o <<",", " ">> \o r2 =>
                       /\ result = "Ok"
                       /\ Shapes(RealTokens(tokens)) =
                              << <<"Register", Some(Str(r1))>>, <<"Comma", Some(",")>>,
                                 <<"Register", Some(Str(r2))>> >>
        /\ source = SimpleInstructionCode =>
               /\ result = "Ok"
               /\ Kinds(tokens) = <<"Identifier", "Colon", "Instruction", "Register", "Comma",
                                    "Register", "Comma", "Number(Dec)", "Newline", "EndOfFile">>
               /\ tokens[1].text = Some("loop")
               /\ tokens[3].text = Some("addi")
               /\ tokens[4].text = Some("x1")
               /\ tokens[6].text = Some("x0")
               /\ tokens[8].text = Some("5")

\* ------------------------------------------------------------------------
\* C2
\* ------------------------------------------------------------------------

\* a character that matches no arm stands at a place of s outside comments
\* and strings
HasUnexpectedCharacter(s) ==
    \E i \in 1..Len(s) : IsUnexpected(s[i]) /\ s[i] # "\n" /\ InPlainCode(s, i)

\* C2: a source with a character that matches no tokenizer rule, outside a
\* comment or string, makes tokenize fail: the call returns an error and no
\* token sequence.
C2_UnexpectedCharacterFails ==
    (pc = "done" /\ HasUnexpectedCharacter(source)) => result = "Err"

\* ------------------------------------------------------------------------
\* C3
\* ------------------------------------------------------------------------

\* a line of s has an opening quote outside comments and no other quote up
\* to its end
HasUnterminatedString(s) ==
    \E i \in 1..Len(s) :
        /\ s[i] = "\""
        /\ InPlainCode(s, i)
        /\ \A k \in (i + 1)..Len(s) :
               (\A m \in (i + 1)..k : s[m] # "\n") => s[k] # "\""

\* C3: a source with a line whose opening double quote is never closed
\* makes tokenize fail, and no String token is returned for that run.
C3_UnterminatedStringFails ==
    (pc = "done" /\ HasUnterminatedString(source)) => result = "Err"

\* ------------------------------------------------------------------------
\* C4
\* ------------------------------------------------------------------------

\* C4: when tokenize succeeds the returned sequence holds exactly one
\* EndOfFile token, and it is the last element.
C4_ExactlyOneEndOfFileLast ==
    result = "Ok" =>
        /\ tokens # <<>>
        /\ Last(tokens).kind = "EndOfFile"
        /\ CountKind(tokens, "EndOfFile") = 1

\* a successful call on several lines, the last one without a line feed
C4_Witness ==
    /\ result = "Ok"
    /\ Len(source) >= 3
    /\ Last(source) # "\n"
    /\ \E i \in 1..Len(source) : source[i] = "\n"
    /\ Len(tokens) >= 4
    /\ Last(tokens).kind = "EndOfFile"

\* ------------------------------------------------------------------------
\* C5
\* ------------------------------------------------------------------------

\* C5: the text of every Directive token is the '.' and the alphabetic run
\* that the directive arm took for it, whatever else is on the line; and
\* the source of test_directive yields a Directive token of text ".data"
\* and a Directive token of text ".word".
C5_DirectiveTextIsItsRun ==
    /\ [][Directive =>
            Last(tokens').text = Some(Str(SubSeq(chars, 1, Len(chars) - Len(chars'))))]_vars
    /\ [](pc = "done" /\ source = DirectiveCode =>
            /\ \E i \in 1..Len(tokens) :
                   tokens[i].kind = "Directive" /\ tokens[i].text = Some(".data")
            /\ \E i \in 1..Len(tokens) :
                   tokens[i].kind = "Directive" /\ tokens[i].text = Some(".word"))

\* ------------------------------------------------------------------------
\* C6
\* ------------------------------------------------------------------------

\* C6: for a source whose last line has no line feed after it, no Newline
\* token is emitted for that last line, so that a real token stands right
\* before EndOfFile, and the text of the EndOfFile token is the empty
\* string; the source of test_simple_instruction_1 yields exactly 8 tokens.
C6_NoNewlineForUnterminatedLastLine ==
    (result = "Ok" /\ source # <<>> /\ Last(source) # "\n") =>
        /\ CountKind(tokens, "Newline") = Cardinality({i \in 1..Len(source) : source[i] = "\n"})
        /\ Last(tokens).kind = "EndOfFile"
        /\ Last(tokens).text = Some("")
        /\ source = SimpleInstruction1Code =>
               Shapes(tokens) =
                   << <<"Instruction", Some("lb")>>, <<"Register", Some("a0")>>,
                      <<"Comma", Some(",")>>, <<"Number(Dec)", Some("8")>>,
                      <<"LParen", Some("(")>>, <<"Register", Some("sp")>>,
                      <<"RParen", Some(")")>>, <<"EndOfFile", Some("")>> >>

\* ------------------------------------------------------------------------
\* C7
\* ------------------------------------------------------------------------

\* the number of Newline tokens among the first n tokens
NewlinesBefore(toks, n) == Cardinality({j \in 1..n : toks[j].kind = "Newline"})

\* line k of s, cut at the line feeds only
PhysicalLine(s, k) == SplitLines(s, <<>>)[k]

\* a line that holds only whitespace before its end or its comment sign
IsBlankLine(l) ==
    \A i \in 1..Len(l) :
        (\A j \in 1..i : l[j] # "#") => IsWhitespace(l[i])

C8_LocationIsLineAndOffset ==
    [][(pc = "chars" /\ chars # <<>> /\ Len(tokens') = Len(tokens) + 1) =>
           /\ Last(tokens').location.line = Len(Lines(source)) - Len(lines)
           /\ PhysicalLine(source, Last(tokens').location.line) \in {line, Append(line, "\r")}
           /\ Last(tokens').location.col = 1 + (Len(line) - Len(chars))]_vars

\* ------------------------------------------------------------------------
\* C9
\* ------------------------------------------------------------------------

\* s without its leading '-', if it has one
Unsigned(s) == IF s # <<>> /\ Head(s) = "-" THEN Tail(s) ELSE s

\* a run of decimal digits
IsDecNumeral(s) == s # <<>> /\ \A i \in 1..Len(s) : IsAsciiDigit(s[i])

\* "0x" and a run of hex digits
IsHexNumeral(s) ==
    /\ Len(s) >= 3
    /\ s[1] = "0"
    /\ s[2] = "x"
    /\ \A i \in 3..Len(s) : IsAsciiHexdigit(s[i])

\* C9: a source that is one numeral, an optional '-' and then either "0x"
\* with hex digits or decimal digits, yields exactly one Number token, of
\* base Hex for the 0x form and Dec for the decimal form, whose text is the
\* numeral verbatim, the '-' included; and the source of test_hex_number
\* yields a Number(Hex) token of text "0xFF".
C9_NumeralIsOneNumberToken ==
    pc = "done" =>
        /\ IsHexNumeral(Unsigned(source)) =>
               Shapes(RealTokens(tokens)) = << <<"Number(Hex)", Some(Str(source))>> >>
        /\ IsDecNumeral(Unsigned(source)) =>
               Shapes(RealTokens(tokens)) = << <<"Number(Dec)", Some(Str(source))>> >>
        /\ source = HexNumberCode =>
               \E i \in 1..Len(tokens) :
                   tokens[i].kind = "Number(Hex)" /\ tokens[i].text = Some("0xFF")

\* ------------------------------------------------------------------------
\* C10
\* ------------------------------------------------------------------------

\* s has, outside comments and strings, a '-' that no digit follows, or at
\* the start of a word a "0x" that no hex digit follows
HasMalformedNumeral(s) ==
    \E i \in 1..Len(s) :
        /\ InPlainCode(s, i)
        /\ \/ /\ s[i] = "-"
              /\ (i = Len(s) \/ ~ IsAsciiDigit(s[i + 1]))
           \/ /\ s[i] = "0"
              /\ (i = LineStart(s, i) \/ IsWhitespace(s[i - 1]) \/ IsPunctuation(s[i - 1]))
              /\ i + 1 <= Len(s)
              /\ s[i + 1] = "x"
              /\ (i + 2 > Len(s) \/ ~ IsAsciiHexdigit(s[i + 2]))

\* C10: a source with a malformed numeral makes tokenize fail: the call
\* returns an error and no Number token for it.
C10_MalformedNumeralFails ==
    (pc = "done" /\ HasMalformedNumeral(source)) => result = "Err"

\* ------------------------------------------------------------------------
\* assemble (riscv-asm/src/assembler.rs)
\* ------------------------------------------------------------------------

\* most symbols that check_for_unresolved reports in one call
MaxUnresolved == 2

\* highest source line that a reported symbol carries
MaxLine == 3

\* the symbol names of the explored programs
SymbolNames == {"loop", "end", "my_var", "line"}

\* anyhow::Result: Ok(v) and Err(e)
Ok(v) == [ok |-> TRUE, value |-> v]
Err(e) == [ok |-> FALSE, value |-> e]

\* AssemblerError::TokenizerError
TokenizerError(m, loc) == [kind |-> "TokenizerError", message |-> m, location |-> loc]

\* AssemblerError::ParserError
ParserError(m, loc) == [kind |-> "ParserError", message |-> m, location |-> loc]

\* AssemblerError::SymbolError, as assemble builds it
SymbolError(m, loc) == [kind |-> "SymbolError", message |-> m, location |-> loc]

\* AssemblerError::MultipleErrors
MultipleErrors(errors) == [kind |-> "MultipleErrors", errors |-> errors]

\* the fatal errors of memory allocation and code generation
FatalError(m, loc) == [kind |-> "Fatal", message |-> m, location |-> loc]

\* what tokenize can return to assemble: its only return is
\* anyhow::Ok(tokens)
TokenizeResults == {"Ok"}

\* what parser.parse_all can return: Ok, one ParserError, or the aggregate
\* of several in the order of their detection
ParseOutcomes ==
    {Ok("items"),
     Err(ParserError("expected register", SourceLocation(1, 6))),
     Err(MultipleErrors(<<ParserError("expected register", SourceLocation(1, 6)),
                          ParserError("immediate out of range", SourceLocation(2, 13))>>))}

\* what symbol_table.check_for_unresolved can return: (name, line) pairs of
\* distinct symbols
UnresolvedLists ==
    {u \in UNION {[1..n -> [name : SymbolNames, line : 1..MaxLine]] : n \in 0..MaxUnresolved} :
        \A i \in 1..Len(u), j \in 1..Len(u) : i # j => u[i].name # u[j].name}

\* what allocate_memory can return
AllocateOutcomes ==
    {Ok("map"), Err(FatalError("address space overflow", SourceLocation(2, 1)))}

\* what generate_machine_code can return: the words of the items, as
\* little-endian bytes, or the error of a value that does not fit its field
GenerateOutcomes ==
    {Ok(<<>>), Ok(<<19, 0, 0, 0>>), Ok(<<147, 0, 80, 0, 51, 1, 16, 64>>),
     Err(FatalError("value does not fit its field", SourceLocation(1, 14)))}

\* the state after `return anyhow::Err(e)` or the `?` of a failed stage
ReturnErr(e) ==
    /\ ret' = Some(Err(e))
    /\ stage' = "returned"

\* the error pushed for one unresolved symbol
UndefinedSymbolError(name, l) ==
    SymbolError("Undefined symbol: " \o name, SourceLocation(l, 0))

\* UnresolvedErrors stopping at the first symbol
UnresolvedErrorsFirstOnly(u) == <<UndefinedSymbolError(u[1].name, u[1].line)>>

\* the vector `errors` after the loop over unresolved
UnresolvedErrors(u) == [i \in 1..Len(u) |-> UndefinedSymbolError(u[i].name, u[i].line)]

\* AggregateOrSingle wrapping in every case
AlwaysAggregate(errors) == MultipleErrors(errors)

\* the error returned for the vector `errors`: the only one unwrapped,
\* several as one MultipleErrors
AggregateOrSingle(errors) ==
    IF Len(errors) = 1 THEN errors[1] ELSE MultipleErrors(errors)

AsmInit ==
    /\ TokenizerIdle
    /\ CpuIdle
    /\ stage = "tokenize"
    /\ ran = <<>>
    /\ unresolved = <<>>
    /\ ret = None

\* `let tokens = tokenize(source)?;`
TokenizeStage ==
    /\ stage = "tokenize"
    /\ ran' = Append(ran, "tokenize")
    /\ \E r \in TokenizeResults :
           IF r = "Ok"
           THEN stage' = "parse" /\ ret' = ret
           ELSE ReturnErr(TokenizerError("unexpected character", SourceLocation(1, 1)))
    /\ UNCHANGED unresolved
    /\ UNCHANGED <<vars, cpuVars>>

\* `let parsed_items = parser.parse_all(&mut symbol_table)?;`
ParseStage ==
    /\ stage = "parse"
    /\ ran' = Append(ran, "parse")
    /\ \E o \in ParseOutcomes :
           IF o.ok
           THEN stage' = "check" /\ ret' = ret
           ELSE ReturnErr(o.value)
    /\ UNCHANGED unresolved
    /\ UNCHANGED <<vars, cpuVars>>

\* CheckUnresolved going on to the allocation whatever it found
CheckUnresolvedFallsThrough ==
    /\ stage = "check"
    /\ ran' = Append(ran, "check")
    /\ \E u \in UnresolvedLists :
           /\ unresolved' = u
           /\ stage' = "allocate"
           /\ ret' = ret
    /\ UNCHANGED <<vars, cpuVars>>

\* `let unresolved = symbol_table.check_for_unresolved();` and the if that
\* follows it
CheckUnresolved ==
    /\ stage = "check"
    /\ ran' = Append(ran, "check")
    /\ \E u \in UnresolvedLists :
           /\ unresolved' = u
           /\ IF u # <<>>
              THEN ReturnErr(AggregateOrSingle(UnresolvedErrors(u)))
              ELSE stage' = "allocate" /\ ret' = ret
    /\ UNCHANGED <<vars, cpuVars>>

\* `allocate_memory(&mut memory_map, &parsed_items)?;`
AllocateStage ==
    /\ stage = "allocate"
    /\ ran' = Append(ran, "allocate")
    /\ \E o \in AllocateOutcomes :
           IF o.ok
           THEN stage' = "generate" /\ ret' = ret
           ELSE ReturnErr(o.value)
    /\ UNCHANGED unresolved
    /\ UNCHANGED <<vars, cpuVars>>

\* `let output = generate_machine_code(...)?; Ok(output)`
GenerateStage ==
    /\ stage = "generate"
    /\ ran' = Append(ran, "generate")
    /\ \E o \in GenerateOutcomes :
           IF o.ok
           THEN ret' = Some(Ok(o.value)) /\ stage' = "returned"
           ELSE ReturnErr(o.value)
    /\ UNCHANGED unresolved
    /\ UNCHANGED <<vars, cpuVars>>

AsmNext ==
    \/ TokenizeStage
    \/ ParseStage
    \/ CheckUnresolved
    \/ AllocateStage
    \/ GenerateStage

SpecAsm == AsmInit /\ [][AsmNext]_allVars

\* ------------------------------------------------------------------------
\* Vocabulary of the assemble properties
\* ------------------------------------------------------------------------

Returned == stage = "returned"

\* the call returned a byte buffer
ReturnedBytes == Returned /\ ret[1].ok

\* the call returned an error
ReturnedError == Returned /\ ~ ret[1].ok

\* the single errors that an error value holds, in order
ErrorsOf(e) == IF e.kind = "MultipleErrors" THEN e.errors ELSE <<e>>

\* the stages of assemble, in the order of the pipeline
Pipeline == <<"tokenize", "parse", "check", "allocate", "generate">>

IsPrefix(p, q) == Len(p) <= Len(q) /\ \A i \in 1..Len(p) : p[i] = q[i]

\* ------------------------------------------------------------------------
\* C11
\* ------------------------------------------------------------------------

\* C11: once the check for unresolved symbols has run, assemble returns a
\* byte buffer only if the unresolved list is empty, and with an empty list
\* it fails only by a fatal error of allocation or code generation; with a
\* non-empty list it fails, and its error holds for every unresolved symbol
\* a SymbolError whose message names the symbol and whose location carries
\* the line reported for it.
C11_BytesIffNothingUnresolved ==
    (Returned /\ Len(ran) >= 3) =>
        /\ ret[1].ok => unresolved = <<>>
        /\ unresolved = <<>> => (ret[1].ok \/ ret[1].value.kind = "Fatal")
        /\ unresolved # <<>> =>
               /\ ~ ret[1].ok
               /\ \A i \in 1..Len(unresolved) :
                      \E k \in 1..Len(ErrorsOf(ret[1].value)) :
                          LET e == ErrorsOf(ret[1].value)[k]
                          IN  /\ e.kind = "SymbolError"
                              /\ e.message = "Undefined symbol: " \o unresolved[i].name
                              /\ e.location.line = unresolved[i].line

\* a call that failed on two unresolved symbols
C11_Witness ==
    /\ ReturnedError
    /\ Len(unresolved) = 2
    /\ ran = <<"tokenize", "parse", "check">>

\* ------------------------------------------------------------------------
\* C12
\* ------------------------------------------------------------------------

\* C12: the error returned by assemble is either a single structured error
\* or one MultipleErrors of at least two errors none of which is itself a
\* MultipleErrors; for one unresolved symbol it is that symbol's error
\* unwrapped, for n >= 2 it is the aggregate of the n errors in the order
\* of the unresolved list, each with the line of its own symbol.
C12_SingleOrFlatAggregate ==
    ReturnedError =>
        LET e == ret[1].value
        IN  /\ e.kind = "MultipleErrors" =>
                   /\ Len(e.errors) >= 2
                   /\ \A k \in 1..Len(e.errors) : e.errors[k].kind # "MultipleErrors"
            /\ Len(unresolved) = 1 =>
                   /\ e.kind = "SymbolError"
                   /\ e.location.line = unresolved[1].line
            /\ Len(unresolved) >= 2 =>
                   /\ e.kind = "MultipleErrors"
                   /\ Len(e.errors) = Len(unresolved)
                   /\ \A k \in 1..Len(unresolved) :
                          /\ e.errors[k].kind = "SymbolError"
                          /\ e.errors[k].message = "Undefined symbol: " \o unresolved[k].name
                          /\ e.errors[k].location.line = unresolved[k].line

\* a call that failed on exactly one unresolved symbol
C12_Witness ==
    /\ ReturnedError
    /\ Len(unresolved) = 1
    /\ ret[1].value.kind = "SymbolError"

\* ------------------------------------------------------------------------
\* C13
\* ------------------------------------------------------------------------

\* C13: every SourceLocation of an error returned by assemble is 1-indexed:
\* its line is at least 1 and its column is at least 1, the locations of the
\* undefined-symbol errors included.
C13_LocationsAreOneIndexed ==
    ReturnedError =>
        \A k \in 1..Len(ErrorsOf(ret[1].value)) :
            /\ ErrorsOf(ret[1].value)[k].location.line >= 1
            /\ ErrorsOf(ret[1].value)[k].location.col >= 1

\* ------------------------------------------------------------------------
\* C14
\* ------------------------------------------------------------------------

\* C14: the stages started so far are a prefix of tokenize, parse, check,
\* allocate, generate, so each ran at most once and after its predecessor;
\* nothing is returned while a stage is still to run; a failed call stopped
\* at the stage that failed, the check stage when a symbol is unresolved;
\* and a byte buffer is returned only after all five stages ran.
C14_StagesInOrder ==
    /\ IsPrefix(ran, Pipeline)
    /\ (ret # None) <=> Returned
    /\ ~ Returned => (Len(ran) < 5 /\ stage = Pipeline[Len(ran) + 1])
    /\ unresolved # <<>> => (ReturnedError /\ ran = SubSeq(Pipeline, 1, 3))
    /\ ReturnedError =>
           LET k == ErrorsOf(ret[1].value)[1].kind
           IN  /\ k = "TokenizerError" => Len(ran) = 1
               /\ k = "ParserError" => Len(ran) = 2
               /\ k = "SymbolError" => Len(ran) = 3
               /\ k = "Fatal" => Len(ran) \in {4, 5}
    /\ ReturnedBytes => ran = Pipeline

\* a call that returned a non-empty byte buffer
C14_Witness ==
    /\ ReturnedBytes
    /\ ret[1].value # <<>>
    /\ ran = Pipeline

\* ------------------------------------------------------------------------
\* Cpu (riscv-emu/src/cpu.rs)
\* ------------------------------------------------------------------------

\* A u32 is the record of its two 16-bit halves, hi being bits 31:16 and lo
\* bits 15:0, so that no intermediate value leaves the integers of the
\* checker; every operation below wraps at 32 bits.
Half == 65536

U32(h, l) == [hi |-> h, lo |-> l]

Zero == U32(0, 0)

\* u32::wrapping_add
WrappingAdd(a, b) ==
    U32((a.hi + b.hi + (a.lo + b.lo) \div Half) % Half, (a.lo + b.lo) % Half)

\* u32::wrapping_sub
WrappingSub(a, b) ==
    U32((a.hi + Half - b.hi - (IF a.lo < b.lo THEN 1 ELSE 0)) % Half,
        (a.lo + Half - b.lo) % Half)

RECURSIVE Bitwise(_, _, _, _)
\* the n low bits of a op b, op being "xor", "or" or "and"
Bitwise(op, a, b, n) ==
    IF n = 0 THEN 0
    ELSE LET x == a % 2
             y == b % 2
             bit == CASE op = "xor" -> (x + y) % 2
                      [] op = "or"  -> IF x + y > 0 THEN 1 ELSE 0
                      [] OTHER      -> x * y
         IN  bit + 2 * Bitwise(op, a \div 2, b \div 2, n - 1)

\* the operators ^, | and & on u32
BitwiseU32(op, a, b) == U32(Bitwise(op, a.hi, b.hi, 16), Bitwise(op, a.lo, b.lo, 16))

\* Fetch reading the four bytes in big-endian order
FetchBigEndian(dram, index) ==
    U32(dram[index + 1] * 256 + dram[index + 2], dram[index + 3] * 256 + dram[index + 4])

\* Cpu::fetch at byte index `index` (0-based) of dram
Fetch(dram, index) ==
    U32(dram[index + 4] * 256 + dram[index + 3], dram[index + 2] * 256 + dram[index + 1])

\* the fields that execute takes from the instruction
Opcode(i) == i.lo % 128
Rd(i) == (i.lo \div 128) % 32
Funct3(i) == (i.lo \div 4096) % 8
Rs1(i) == (i.lo \div 32768) + 2 * (i.hi % 16)
Rs2(i) == (i.hi \div 16) % 32
Funct7(i) == i.hi \div 512

\* `immediate & 0xFFFFF000`
UpperImmediate(i) == U32(i.hi, i.lo - (i.lo % 4096))

\* `(immediate as i32 >> 20) as u32`: the arithmetic shift copies bit 31
SignExtendedImmediate(i) ==
    IF i.hi >= 32768 THEN U32(65535, 61440 + i.hi \div 16) ELSE U32(0, i.hi \div 16)

\* Cpu::execute: the registers after the instruction, regs being the
\* registers before it
Execute(regs, i) ==
    CASE Opcode(i) = 55 -> [regs EXCEPT ![Rd(i)] = UpperImmediate(i)]
      [] Opcode(i) = 19 ->
            [regs EXCEPT ![Rd(i)] = WrappingAdd(regs[Rs1(i)], SignExtendedImmediate(i))]
      [] Opcode(i) = 51 ->
            (CASE Funct3(i) = 0 ->
                    IF Funct7(i) = 32
                    THEN [regs EXCEPT ![Rd(i)] = WrappingSub(regs[Rs1(i)], regs[Rs2(i)])]
                    ELSE IF Funct7(i) = 0
                    THEN [regs EXCEPT ![Rd(i)] = WrappingAdd(regs[Rs1(i)], regs[Rs2(i)])]
                    ELSE regs
               [] Funct3(i) = 4 ->
                    [regs EXCEPT ![Rd(i)] = BitwiseU32("xor", regs[Rs1(i)], regs[Rs2(i)])]
               [] Funct3(i) = 6 ->
                    [regs EXCEPT ![Rd(i)] = BitwiseU32("or", regs[Rs1(i)], regs[Rs2(i)])]
               [] Funct3(i) = 7 ->
                    [regs EXCEPT ![Rd(i)] = BitwiseU32("and", regs[Rs1(i)], regs[Rs2(i)])]
               [] OTHER -> regs)
      [] OTHER -> regs

\* the word of an R-type, I-type and U-type instruction in the layout of the
\* code generator
EncodeR(funct7, rs2, rs1, funct3, rd, opcode) ==
    U32(funct7 * 512 + rs2 * 16 + rs1 \div 2,
        (rs1 % 2) * 32768 + funct3 * 4096 + rd * 128 + opcode)

EncodeI(imm12, rs1, funct3, rd, opcode) ==
    U32(imm12 * 16 + rs1 \div 2,
        (rs1 % 2) * 32768 + funct3 * 4096 + rd * 128 + opcode)

EncodeU(imm20, rd, opcode) ==
    U32(imm20 \div 16, (imm20 % 16) * 4096 + rd * 128 + opcode)

\* the four bytes of a word in the output buffer, little-endian
ToBytes(w) == <<w.lo % 256, w.lo \div 256, w.hi % 256, w.hi \div 256>>

\* most instructions of an explored program
MaxProgram == 2

\* the registers named by the explored instructions
RegisterChoices == {0, 31}

\* the explored instruction words: LUI, ADDI, ADD and SUB over the chosen
\* registers and immediates, and one each of XOR, OR, AND, an R-type word
\* of another funct7, an I-type word of another funct3, and another opcode
InstructionWords ==
    {EncodeU(imm, rd, 55) : imm \in {1, 1048575}, rd \in RegisterChoices}
    \cup {EncodeI(imm, rs1, 0, rd, 19) :
              imm \in {5, 2048, 4095}, rs1 \in RegisterChoices, rd \in RegisterChoices}
    \cup {EncodeR(f7, rs2, rs1, 0, rd, 51) :
              f7 \in {0, 32}, rs2 \in RegisterChoices, rs1 \in RegisterChoices,
              rd \in RegisterChoices}
    \cup {EncodeR(0, 31, 31, 4, 31, 51), EncodeR(0, 0, 31, 6, 31, 51),
          EncodeR(0, 31, 31, 7, 31, 51), EncodeR(1, 31, 31, 0, 31, 51),
          EncodeI(5, 31, 2, 31, 19), EncodeU(1, 31, 23)}

RECURSIVE Flatten(_)
\* the bytes of a sequence of words
Flatten(ws) == IF ws = <<>> THEN <<>> ELSE ToBytes(Head(ws)) \o Flatten(Tail(ws))

\* the explored contents of dram: the bytes of up to MaxProgram words, alone
\* or followed by one more byte
Programs ==
    {Flatten(ws) \o extra :
        ws \in UNION {[1..n -> InstructionWords] : n \in 0..MaxProgram},
        extra \in {<<>>, <<19>>}}

\* Cpu::new_with_instructions
CpuInit ==
    /\ TokenizerIdle
    /\ AssembleIdle
    /\ \E instructions \in Programs :
           cpu = [pc |-> 0, regs |-> [r \in 0..31 |-> Zero], dram |-> instructions]
    /\ cpu_state = "ready"
    /\ trace = <<>>

\* Cpu::step when the four bytes at pc are inside dram
Step ==
    /\ cpu_state = "ready"
    /\ cpu.pc + 3 < Len(cpu.dram)
    /\ LET instruction == Fetch(cpu.dram, cpu.pc)
       IN  /\ cpu' = [cpu EXCEPT !.pc = cpu.pc + 4,
                                 !.regs = Execute([cpu.regs EXCEPT ![0] = Zero], instruction)]
           /\ trace' = Append(trace, instruction)
    /\ UNCHANGED cpu_state
    /\ UNCHANGED <<vars, asmVars>>

\* Cpu::step when fetch indexes dram out of bounds: the call panics before
\* anything is written
StepPanics ==
    /\ cpu_state = "ready"
    /\ cpu.pc + 3 >= Len(cpu.dram)
    /\ cpu_state' = "panicked"
    /\ UNCHANGED <<cpu, trace>>
    /\ UNCHANGED <<vars, asmVars>>

CpuNext ==
    \/ Step
    \/ StepPanics

SpecCpu == CpuInit /\ [][CpuNext]_allVars

\* ------------------------------------------------------------------------
\* Vocabulary of the Cpu properties
\* ------------------------------------------------------------------------

\* bits top:bottom of the word w, as a number (at most 20 bits are asked)
Bits(w, top, bottom) ==
    IF bottom >= 16 THEN (w.hi \div 2^(bottom - 16)) % 2^(top - bottom + 1)
    ELSE IF top < 16 THEN (w.lo \div 2^bottom) % 2^(top - bottom + 1)
    ELSE (w.lo \div 2^bottom) + (w.hi % 2^(top - 15)) * 2^(16 - bottom)

\* the number dhi * 2^16 + dlo is a multiple of 2^32
IsMultipleOfTwoTo32(dhi, dlo) ==
    /\ dlo % Half = 0
    /\ (dhi + dlo \div Half) % Half = 0

\* r = (a + b) mod 2^32 and r = (a - b) mod 2^32 for words, and
\* r = (a + k) mod 2^32 for a word a and a small integer k
IsSumMod32(r, a, b) == IsMultipleOfTwoTo32(a.hi + b.hi - r.hi, a.lo + b.lo - r.lo)
IsDifferenceMod32(r, a, b) == IsMultipleOfTwoTo32(a.hi - b.hi - r.hi, a.lo - b.lo - r.lo)
IsOffsetMod32(r, a, k) == IsMultipleOfTwoTo32(a.hi - r.hi, a.lo + k - r.lo)

\* the 12-bit field imm read as a two's complement number
SignedImmediate(imm) == IF imm >= 2048 THEN imm - 4096 ELSE imm

\* ------------------------------------------------------------------------
\* C15
\* ------------------------------------------------------------------------

\* C15: one step on a word in the code generator's layout, with rd, rs1, rs2
\* in bits 11:7, 19:15, 24:20 and regs the registers before the step: LUI
\* (opcode 0110111) leaves in regs[rd] the word with its low 12 bits zeroed;
\* ADDI (opcode 0010011, funct3 000) leaves (regs[rs1] + sign-extended bits
\* 31:20) mod 2^32; opcode 0110011 with funct3 000 leaves (regs[rs1] +
\* regs[rs2]) mod 2^32 for funct7 0x00 and (regs[rs1] - regs[rs2]) mod 2^32
\* for funct7 0x20.
C15_StepExecutesTheEncodedInstruction ==
    [][Step =>
        LET w   == Last(trace')
            rd  == Bits(w, 11, 7)
            rs1 == Bits(w, 19, 15)
            rs2 == Bits(w, 24, 20)
            out == cpu'.regs[rd]
        IN  /\ Bits(w, 6, 0) = 55 =>
                   /\ Bits(out, 11, 0) = 0
                   /\ Bits(out, 31, 12) = Bits(w, 31, 12)
            /\ (Bits(w, 6, 0) = 19 /\ Bits(w, 14, 12) = 0) =>
                   IsOffsetMod32(out, cpu.regs[rs1], SignedImmediate(Bits(w, 31, 20)))
            /\ (Bits(w, 6, 0) = 51 /\ Bits(w, 14, 12) = 0 /\ Bits(w, 31, 25) = 0) =>
                   IsSumMod32(out, cpu.regs[rs1], cpu.regs[rs2])
            /\ (Bits(w, 6, 0) = 51 /\ Bits(w, 14, 12) = 0 /\ Bits(w, 31, 25) = 32) =>
                   IsDifferenceMod32(out, cpu.regs[rs1], cpu.regs[rs2])]_allVars

\* ------------------------------------------------------------------------
\* C16
\* ------------------------------------------------------------------------

\* C16: after n steps from new_with_instructions pc is 4 * n, and the k-th
\* step, counted from 0, executed the word dram[4k] + 2^8 * dram[4k+1] +
\* 2^16 * dram[4k+2] + 2^24 * dram[4k+3].
C16_PcAndLittleEndianFetch ==
    cpu_state \in {"ready", "panicked"} =>
        /\ cpu.pc = 4 * Len(trace)
        /\ \A k \in 0..(Len(trace) - 1) :
               /\ trace[k + 1].lo = cpu.dram[4 * k + 1] + 256 * cpu.dram[4 * k + 2]
               /\ trace[k + 1].hi = cpu.dram[4 * k + 3] + 256 * cpu.dram[4 * k + 4]

\* two steps were made and their two words differ
C16_Witness ==
    /\ cpu_state = "ready"
    /\ Len(trace) = 2
    /\ cpu.pc = 8
    /\ trace[1] # trace[2]

\* ------------------------------------------------------------------------
\* C20
\* ------------------------------------------------------------------------

\* C20: register x0 is zero whenever step has returned, also after an
\* instruction whose rd field is 0.
C20_X0IsZero ==
    cpu_state = "ready" => cpu.regs[0] = Zero

\* ------------------------------------------------------------------------
\* C17
\* ------------------------------------------------------------------------

\* position i of the line l holds a comment sign with no quote and no other
\* comment sign before it
IsCommentStart(l, i) == l[i] = "#" /\ \A k \in 1..(i - 1) : l[k] \notin {"#", "\""}

\* C17: no token of kind Comment is ever produced; when the scan meets a '#'
\* outside a string it pushes nothing, keeps the tokens it has and leaves
\* the line; all that follows for that line is its Newline token; and in the
\* result no token of a line is located at or after the line's comment sign.
C17_CommentEndsTheLine ==
    /\ [](\A i \in 1..Len(tokens) : tokens[i].kind # "Comment")
    /\ [][(pc = "chars" /\ chars # <<>> /\ Head(chars) = "#") =>
              (tokens' = tokens /\ pc' = "eol")]_vars
    /\ [][pc = "eol" =>
              /\ tokens' = Append(tokens, Token("Newline", None,
                                                SourceLocation(line_num, col_num)))
              /\ pc' = "lines"]_vars
    /\ [](pc = "done" =>
              \A i \in 1..Len(tokens) :
                  ~ IsLayout(tokens[i]) =>
                      LET l == PhysicalLine(source, tokens[i].location.line)
                      IN  \A c \in 1..Len(l) :
                              IsCommentStart(l, c) => tokens[i].location.col < c)

\* a call returned on a word, a comment sign and a word: one token but the
\* Newline and EndOfFile
C17_Witness ==
    /\ pc = "done"
    /\ Len(source) = 3
    /\ IsIdentifierStart(source[1])
    /\ source[2] = "#"
    /\ IsIdentifierStart(source[3])
    /\ Kinds(tokens) = <<"Identifier", "Newline", "EndOfFile">>

\* ------------------------------------------------------------------------
\* C19
\* ------------------------------------------------------------------------

RECURSIVE BackslashesBefore(_, _)
\* the number of consecutive backslashes of s that end right before
\* position i
BackslashesBefore(s, i) ==
    IF i > 1 /\ s[i - 1] = "\\" THEN 1 + BackslashesBefore(s, i - 1) ELSE 0

\* position i of s, which starts with an opening quote, holds a quote that
\* is not escaped: an even number of backslashes stands before it
IsUnescapedQuote(s, i) == i > 1 /\ s[i] = "\"" /\ BackslashesBefore(s, i) % 2 = 0

\* C19: the String token started by an opening quote ends at the first
\* following quote of the line that an even number of consecutive
\* backslashes precedes: its text runs from the opening to that closing
\* quote, and the scan goes on right after it.
C19_StringEndsAtFirstUnescapedQuote ==
    [][(pc = "chars" /\ chars # <<>> /\ Head(chars) = "\"" /\ tokens' # tokens) =>
           \A i \in 1..Len(chars) :
               (IsUnescapedQuote(chars, i) /\ \A k \in 1..(i - 1) : ~ IsUnescapedQuote(chars, k)) =>
                   /\ Last(tokens').kind = "String"
                   /\ Last(tokens').text = Some(Str(SubSeq(chars, 1, i)))
                   /\ chars' = Advance(chars, i)]_vars

====
